---- MODULE Spec2Model ----
(***************************************************************************)
(* QR Track: short-code issuance (POST /api/qr/generate), the redirect-    *)
(* and-track path (GET /r/{shortCode}) and the analytics read side         *)
(* (GET /api/analytics/{qrId}) over the PostgreSQL tables qr_codes and     *)
(* scans.  Every handler is an async function: one action per stretch of   *)
(* code between two awaits, each SQL statement executing atomically        *)
(* against the store.                                                      *)
(***************************************************************************)
EXTENDS Integers, Sequences, FiniteSets, TLC

(***************************************************************************)
(* Bounds of the model.                                                    *)
(***************************************************************************)
NumGen == 2      \* concurrent POST /api/qr/generate requests
NumGet == 2      \* concurrent GET /r/{shortCode} requests
NumAn == 1       \* concurrent GET /api/analytics/{qrId} requests
MaxDay == 2      \* the last calendar day the clock reaches (it starts on day 1)
MaxDeletes == 1  \* external DELETE FROM qr_codes statements
MaxRequests == 3 \* requests that arrive, of all three kinds together, on a fresh database
MaxSeededRequests == 1 \* and on the seeded database
MaxSegs == 5     \* segments of a generated argument of truncateIP
MaxLocations == 22 \* (country, city) pairs among the scans of a large table
MaxBrowsers == 12  \* browsers among them
MaxLargeRequests == 1 \* requests that arrive on a large table

GenReqs == 1..NumGen
GetReqs == 1..NumGet
AnReqs == 1..NumAn

(***************************************************************************)
(* Values.  Opaque strings are TLA+ strings with NULL for SQL/JS null;     *)
(* strings the code looks into are sequences (of characters, or for IP     *)
(* addresses of tokens: a separator character or a maximal run of other    *)
(* characters), wrapped as Some(s) / None where they are nullable.         *)
(***************************************************************************)
NULL == "NULL"
None == <<>>
Some(x) == <<x>>

\* nanoid(10): a random URL-safe string; the draws the model distinguishes.
Codes == {"c1", "c2"}

HexDigits == {"0", "1", "2", "3", "4", "5", "6", "7", "8", "9",
              "a", "b", "c", "d", "e", "f", "A", "B", "C", "D", "E", "F"}

\* /^#[0-9A-Fa-f]{6}$/
IsHexColor(s) ==
    /\ Len(s) = 7
    /\ s[1] = "#"
    /\ \A i \in 2..7 : s[i] \in HexDigits

DefaultFg == <<"#", "0", "0", "0", "0", "0", "0">>
DefaultBg == <<"#", "F", "F", "F", "F", "F", "F">>
Red == <<"#", "F", "F", "0", "0", "0", "0">>
Yellow == <<"#", "F", "F", "F", "F", "0", "0">>
NamedRed == <<"r", "e", "d">>
Blue == <<"#", "0", "0", "0", "0", "F", "F">>
Grey == <<"#", "E", "0", "E", "0", "E", "0">>

\* z.string().url(): the strings new URL() parses, among those requests carry.
ParseableURLs == {"https://example.com", "https://google.com"}
IsURL(u) == u \in ParseableURLs

\* Request bodies of POST /api/qr/generate; an omitted colour is None.
Bodies ==
    { [targetUrl |-> "https://example.com", fgColor |-> None, bgColor |-> None],
      [targetUrl |-> "https://google.com", fgColor |-> Some(Red), bgColor |-> Some(Yellow)],
      [targetUrl |-> "not-a-url", fgColor |-> None, bgColor |-> None],
      [targetUrl |-> "https://example.com", fgColor |-> Some(NamedRed), bgColor |-> None] }

\* Mutant: the colours are not checked against the pattern.
generateQRSchema_NoColorCheck(body) ==
    LET fg == IF body.fgColor = None THEN DefaultFg ELSE body.fgColor[1]
        bg == IF body.bgColor = None THEN DefaultBg ELSE body.bgColor[1]
    IN  [ok |-> IsURL(body.targetUrl),
         targetUrl |-> body.targetUrl, fgColor |-> fg, bgColor |-> bg]

\* generateQRSchema.parse: ok = FALSE is the ZodError.
generateQRSchema(body) ==
    LET fg == IF body.fgColor = None THEN DefaultFg ELSE body.fgColor[1]
        bg == IF body.bgColor = None THEN DefaultBg ELSE body.bgColor[1]
    IN  [ok |-> IsURL(body.targetUrl) /\ IsHexColor(fg) /\ IsHexColor(bg),
         targetUrl |-> body.targetUrl, fgColor |-> fg, bgColor |-> bg]

(***************************************************************************)
(* lib/utils: truncateIP and parseUserAgent.                               *)
(***************************************************************************)
Dot == "."
Colon == ":"

\* String.prototype.includes for a one-character separator
Includes(s, sep) == \E i \in 1..Len(s) : s[i] = sep

\* String.prototype.split: the segments between the separators, empty ones kept
RECURSIVE Split(_, _)
Split(s, sep) ==
    IF ~Includes(s, sep)
    THEN <<s>>
    ELSE LET i == CHOOSE k \in 1..Len(s) :
                     s[k] = sep /\ \A j \in 1..(k - 1) : s[j] # sep
         IN  <<SubSeq(s, 1, i - 1)>> \o Split(SubSeq(s, i + 1, Len(s)), sep)

\* Array.prototype.join
RECURSIVE Join(_, _)
Join(parts, sep) ==
    IF parts = <<>> THEN <<>>
    ELSE IF Len(parts) = 1 THEN parts[1]
    ELSE parts[1] \o <<sep>> \o Join(Tail(parts), sep)

\* parts[3] = '0' (zero-based index 3): a shorter array grows to length 4, its
\* holes joining as empty strings
SetIndex3(parts) ==
    [i \in 1..(IF Len(parts) < 4 THEN 4 ELSE Len(parts)) |->
        IF i = 4 THEN <<"0">> ELSE IF i <= Len(parts) THEN parts[i] ELSE <<>>]

\* Mutant: no slice, every group kept.
Slice04_Whole(parts) == parts

\* Mutant: slice(0, 5).
Slice04_Five(parts) == SubSeq(parts, 1, IF Len(parts) < 5 THEN Len(parts) ELSE 5)

\* Array.prototype.slice(0, 4)
Slice04(parts) == SubSeq(parts, 1, IF Len(parts) < 4 THEN Len(parts) ELSE 4)

\* Mutant: only null is passed through as null, '' is returned as it is.
truncateIP_KeepsEmpty(ip) ==
    IF ip = None \/ ip = Some(<<>>) THEN ip
    ELSE LET s == ip[1]
         IN  IF Includes(s, Dot) THEN Some(Join(SetIndex3(Split(s, Dot)), Dot))
             ELSE IF Includes(s, Colon)
                  THEN Some(Join(Slice04(Split(s, Colon)), Colon) \o <<Colon, Colon>>)
                  ELSE ip

truncateIP(ip) ==
    IF ip = None \/ ip = Some(<<>>) THEN None
    ELSE LET s == ip[1]
         IN  IF Includes(s, Dot) THEN Some(Join(SetIndex3(Split(s, Dot)), Dot))
             ELSE IF Includes(s, Colon)
                  THEN Some(Join(Slice04(Split(s, Colon)), Colon) \o <<Colon, Colon>>)
                  ELSE ip

\* User-agent strings and what ua-parser-js reports for them: getDevice().type
\* and getBrowser().name, NULL for undefined.
UserAgents == {"iPhone Safari", "iPad Safari", "Windows Chrome", "PlayStation",
               "Apple Watch", "SmartTV", "curl", ""}

UAParser_getDevice(ua) ==
    CASE ua = "iPhone Safari" -> [type |-> "mobile"]
      [] ua = "iPad Safari" -> [type |-> "tablet"]
      [] ua = "PlayStation" -> [type |-> "console"]
      [] ua = "Apple Watch" -> [type |-> "wearable"]
      [] ua = "SmartTV" -> [type |-> "smarttv"]
      [] OTHER -> [type |-> NULL]

UAParser_getBrowser(ua) ==
    CASE ua = "iPhone Safari" -> [name |-> "Mobile Safari"]
      [] ua = "iPad Safari" -> [name |-> "Mobile Safari"]
      [] ua = "Windows Chrome" -> [name |-> "Chrome"]
      [] ua = "SmartTV" -> [name |-> "Samsung Internet"]
      [] OTHER -> [name |-> NULL]

\* Mutant: an undetected device type is reported as 'unknown'.
parseUserAgent_UndetectedUnknown(userAgent) ==
    IF userAgent = NULL \/ userAgent = ""
    THEN [device_type |-> "unknown", browser |-> "unknown"]
    ELSE LET device == UAParser_getDevice(userAgent)
             browser == UAParser_getBrowser(userAgent)
         IN  [device_type |->
                 IF device.type = "mobile" THEN "mobile"
                 ELSE IF device.type = "tablet" THEN "tablet"
                 ELSE IF device.type = NULL THEN "unknown"
                 ELSE "desktop",
              browser |-> IF browser.name = NULL \/ browser.name = "" THEN "unknown"
                          ELSE browser.name]

\* Mutant: only console and wearable are normalized to desktop, and the
\* browser name is passed on as parsed.
parseUserAgent_OthersUnknown(userAgent) ==
    IF userAgent = NULL \/ userAgent = ""
    THEN [device_type |-> "unknown", browser |-> "unknown"]
    ELSE LET device == UAParser_getDevice(userAgent)
             browser == UAParser_getBrowser(userAgent)
         IN  [device_type |->
                 IF device.type = "mobile" THEN "mobile"
                 ELSE IF device.type = "tablet" THEN "tablet"
                 ELSE IF device.type = NULL \/ device.type = "console"
                         \/ device.type = "wearable" THEN "desktop"
                 ELSE "unknown",
              browser |-> browser.name]

parseUserAgent(userAgent) ==
    IF userAgent = NULL \/ userAgent = ""
    THEN [device_type |-> "unknown", browser |-> "unknown"]
    ELSE LET device == UAParser_getDevice(userAgent)
             browser == UAParser_getBrowser(userAgent)
         IN  [device_type |->
                 IF device.type = "mobile" THEN "mobile"
                 ELSE IF device.type = "tablet" THEN "tablet"
                 ELSE IF device.type = NULL \/ device.type = "console"
                         \/ device.type = "wearable" THEN "desktop"
                 ELSE "desktop",
              browser |-> IF browser.name = NULL \/ browser.name = "" THEN "unknown"
                          ELSE browser.name]

\* Client addresses as token sequences.
IPv4 == <<"203", ".", "0", ".", "113", ".", "7">>
IPv6 == <<"2001", ":", "db8", ":", "85a3", ":", "8d3", ":", "1319", ":", "8a2e", ":", "370", ":", "7348">>
IPv6Short == <<"2001", ":", "db8", ":", ":", "1">>
ForwardedList == <<"203", ".", "0", ".", "113", ".", "7, 10", ".", "0", ".", "0", ".", "1">>

\* The headers of a GET /r/{shortCode} request; NULL / None for an absent header.
Clients ==
    { [userAgent |-> NULL, xForwardedFor |-> None, xRealIp |-> None,
       country |-> NULL, city |-> NULL],
      [userAgent |-> "iPhone Safari", xForwardedFor |-> Some(<<>>), xRealIp |-> Some(IPv4),
       country |-> "US", city |-> "Austin"],
      [userAgent |-> "PlayStation", xForwardedFor |-> Some(ForwardedList),
       xRealIp |-> Some(IPv6), country |-> "", city |-> NULL] }

\* a || b on header values: null and '' are falsy
OrElse(a, b) == IF a = None \/ a = Some(<<>>) THEN b ELSE a
OrNull(s) == IF s = NULL \/ s = "" THEN NULL ELSE s

(***************************************************************************)
(* db/seed.sql: the sample rows, inserted into a fresh schema at some hour *)
(* of day 1.  A scan dated NOW() - INTERVAL 'k hours' falls on day 1 when  *)
(* k hours of the day have passed, and on day 0 otherwise.                 *)
(***************************************************************************)
SeedHours == {0, 1, 2, 5, 12}

SeedQRCodes ==
    { [id |-> 1, short_code |-> "abc123xyz", target_url |-> "https://example.com",
       fg_color |-> DefaultFg, bg_color |-> DefaultBg, scan_count |-> 0],
      [id |-> 2, short_code |-> "def456uvw", target_url |-> "https://google.com",
       fg_color |-> Red, bg_color |-> Yellow, scan_count |-> 0],
      [id |-> 3, short_code |-> "ghi789rst", target_url |-> "https://github.com",
       fg_color |-> Blue, bg_color |-> Grey, scan_count |-> 0] }

SeedScan(id, qr, hoursAgo, hour, ua, device, browser, country, city) ==
    [id |-> id, qr_code_id |-> qr,
     scanned_at |-> IF hoursAgo <= hour THEN 1 ELSE 0,
     user_agent |-> ua, ip_address |-> None, country |-> country, city |-> city,
     device_type |-> device, browser |-> browser]

SeedScans(hour) ==
    { SeedScan(1, 1, 24, hour, "Mozilla/5.0 (iPhone; CPU iPhone OS 15_0)",
               "mobile", "Safari", "US", "San Francisco"),
      SeedScan(2, 1, 12, hour, "Mozilla/5.0 (Windows NT 10.0)",
               "desktop", "Chrome", "US", "New York"),
      SeedScan(3, 1, 2, hour, "Mozilla/5.0 (Linux; Android 11)",
               "mobile", "Chrome", "UK", "London"),
      SeedScan(4, 2, 5, hour, "Mozilla/5.0 (Macintosh; Intel Mac OS X)",
               "desktop", "Safari", "CA", "Toronto"),
      SeedScan(5, 2, 1, hour, "Mozilla/5.0 (iPad; CPU OS 15_0)",
               "tablet", "Safari", "US", "Austin") }

\* the short codes redirect requests ask for: drawn ones and a seeded one
Paths == Codes \cup {"abc123xyz"}

MAX_ATTEMPTS == 5

VARIABLES
    qr_codes,     \* table qr_codes: a set of rows
    scans,        \* table scans: a set of rows
    qr_id_seq,    \* last value of qr_codes.id's SERIAL sequence
    scan_id_seq,  \* last value of scans.id's SERIAL sequence
    today,        \* the calendar day NOW() last read
    deletes,      \* external deletions performed so far
    gen,          \* POST /api/qr/generate requests
    get,          \* GET /r/{shortCode} requests
    scanTask,     \* the detached createScan promise of each redirect request
    an,           \* GET /api/analytics/{qrId} requests
    budget,       \* requests that may still arrive
    util          \* a call of a lib/utils function: its argument, then its result

vars == <<qr_codes, scans, qr_id_seq, scan_id_seq, today, deletes, gen, get, scanTask, an,
          budget, util>>
store == <<qr_codes, scans, qr_id_seq, scan_id_seq>>

(***************************************************************************)
(* lib/db: the statements on qr_codes.                                     *)
(***************************************************************************)
\* Mutant: the INSERT without the UNIQUE constraint on short_code.
createQRCode_NoUnique(shortCode, targetUrl, fgColor, bgColor) ==
    [ok |-> TRUE, code |-> "",
     rows |-> << [id |-> qr_id_seq + 1, short_code |-> shortCode,
                  target_url |-> targetUrl, fg_color |-> fgColor,
                  bg_color |-> bgColor, scan_count |-> 0] >>]

\* INSERT INTO qr_codes ... RETURNING *.  ok = FALSE with code "23505" is the
\* violation of short_code UNIQUE; scan_count takes its DEFAULT 0 (created_at,
\* which no statement reads, is left out of the rows).
createQRCode(shortCode, targetUrl, fgColor, bgColor) ==
    IF \E q \in qr_codes : q.short_code = shortCode
    THEN [ok |-> FALSE, code |-> "23505", rows |-> <<>>]
    ELSE [ok |-> TRUE, code |-> "",
          rows |-> << [id |-> qr_id_seq + 1, short_code |-> shortCode,
                       target_url |-> targetUrl, fg_color |-> fgColor,
                       bg_color |-> bgColor, scan_count |-> 0] >>]

\* Mutant: the SELECT without its WHERE clause.
getQRCodeByShortCode_AnyRow(shortCode) ==
    IF qr_codes = {} THEN <<>> ELSE << CHOOSE q \in qr_codes : TRUE >>

\* SELECT * FROM qr_codes WHERE short_code = $1 LIMIT 1: result.rows
getQRCodeByShortCode(shortCode) ==
    LET hit == {q \in qr_codes : q.short_code = shortCode}
    IN  IF hit = {} THEN <<>> ELSE << CHOOSE q \in hit : TRUE >>

\* SELECT * FROM qr_codes WHERE id = $1 LIMIT 1: result.rows
getQRCodeById(id) ==
    LET hit == {q \in qr_codes : q.id = id}
    IN  IF hit = {} THEN <<>> ELSE << CHOOSE q \in hit : TRUE >>

(***************************************************************************)
(* POST /api/qr/generate                                                   *)
(***************************************************************************)
\* A request holds its locals while its handler runs; once it has answered,
\* only the response is left.
GenIdle == [pc |-> "idle", body |-> None, data |-> None, shortCode |-> NULL, attempts |-> 0,
            inserts |-> 0, qrCode |-> None, status |-> 0, error |-> "",
            id |-> 0, short_code |-> NULL]
GenError(status, error, inserts) ==
    [GenIdle EXCEPT !.pc = "done", !.status = status, !.error = error,
                    !.inserts = inserts]
\* (body and data, the validated body, stay with a 201 to say what was asked for)
GenCreated(qrCode, shortCode, data, inserts) ==
    [GenIdle EXCEPT !.pc = "done", !.status = 201, !.id = qrCode.id,
                    !.short_code = shortCode, !.data = data, !.inserts = inserts]

\* request.json(), generateQRSchema.parse, first generateShortCode(10)
GenStart(g) ==
    /\ gen[g].pc = "idle"
    /\ budget > 0 /\ budget' = budget - 1
    /\ \E body \in Bodies, c \in Codes :
          LET v == generateQRSchema(body)
          IN  gen' = [gen EXCEPT ![g] =
                        IF v.ok
                        THEN [@ EXCEPT !.pc = "insert", !.body = Some(body),
                                             !.data = Some(v), !.shortCode = c]
                        ELSE GenError(400, "Invalid input", 0)]
    /\ UNCHANGED <<store, today, deletes, get, scanTask, an, util>>

\* Mutant: the loop condition off by one (attempts <= MAX_ATTEMPTS).
GenInsert_OffByOne(g) ==
    /\ gen[g].pc = "insert"
    /\ gen[g].attempts <= MAX_ATTEMPTS
    /\ LET d == gen[g].data[1]
           r == createQRCode(gen[g].shortCode, d.targetUrl, d.fgColor, d.bgColor)
       IN  IF r.ok
           THEN /\ qr_codes' = qr_codes \cup {r.rows[1]}
                /\ qr_id_seq' = qr_id_seq + 1
                /\ gen' = [gen EXCEPT ![g] = [@ EXCEPT !.pc = "render",
                                                      !.inserts = @ + 1,
                                                      !.qrCode = r.rows]]
           ELSE /\ \E c \in Codes :
                      gen' = [gen EXCEPT ![g] =
                                IF gen[g].attempts + 1 <= MAX_ATTEMPTS
                                THEN [@ EXCEPT !.shortCode = c, !.attempts = @ + 1,
                                               !.inserts = @ + 1]
                                ELSE GenError(500, "Failed to generate unique short code",
                                              gen[g].inserts + 1)]
                /\ UNCHANGED <<qr_codes, qr_id_seq>>
    /\ UNCHANGED <<scans, scan_id_seq, today, deletes, get, scanTask, an, budget, util>>

\* one pass of the while loop: createQRCode settles; on a duplicate key
\* shortCode = generateShortCode(10), attempts++, and the loop condition
GenInsert(g) ==
    /\ gen[g].pc = "insert"
    /\ gen[g].attempts < MAX_ATTEMPTS
    /\ LET d == gen[g].data[1]
           r == createQRCode(gen[g].shortCode, d.targetUrl, d.fgColor, d.bgColor)
       IN  IF r.ok
           THEN /\ qr_codes' = qr_codes \cup {r.rows[1]}
                /\ qr_id_seq' = qr_id_seq + 1
                /\ gen' = [gen EXCEPT ![g] = [@ EXCEPT !.pc = "render",
                                                      !.inserts = @ + 1,
                                                      !.qrCode = r.rows]]
           ELSE /\ \E c \in Codes :
                      gen' = [gen EXCEPT ![g] =
                                IF gen[g].attempts + 1 < MAX_ATTEMPTS
                                THEN [@ EXCEPT !.shortCode = c, !.attempts = @ + 1,
                                               !.inserts = @ + 1]
                                ELSE GenError(500, "Failed to generate unique short code",
                                              gen[g].inserts + 1)]
                /\ UNCHANGED <<qr_codes, qr_id_seq>>
    /\ UNCHANGED <<scans, scan_id_seq, today, deletes, get, scanTask, an, budget, util>>

\* Mutant: any error of createQRCode is retried with a new short code.
GenInsertError_Retries(g) ==
    /\ gen[g].pc = "insert"
    /\ gen[g].attempts + 1 < MAX_ATTEMPTS
    /\ \E c \in Codes :
          gen' = [gen EXCEPT ![g] = [@ EXCEPT !.shortCode = c, !.attempts = @ + 1,
                                             !.inserts = @ + 1]]
    /\ UNCHANGED <<store, today, deletes, get, scanTask, an, budget, util>>

\* createQRCode rejects with an error that is no duplicate key: rethrown, 500
GenInsertError(g) ==
    /\ gen[g].pc = "insert"
    /\ gen' = [gen EXCEPT ![g] = GenError(500, "storage", gen[g].inserts + 1)]
    /\ UNCHANGED <<store, today, deletes, get, scanTask, an, budget, util>>

\* generateQRCodeDataURL resolves: 201 with the inserted row's id and shortCode
GenRender(g) ==
    /\ gen[g].pc = "render"
    /\ gen' = [gen EXCEPT ![g] =
                 [GenCreated(gen[g].qrCode[1], gen[g].shortCode, gen[g].data,
                             gen[g].inserts) EXCEPT !.body = gen[g].body]]
    /\ UNCHANGED <<store, today, deletes, get, scanTask, an, budget, util>>

\* generateQRCodeDataURL rejects: 'Failed to generate QR code', no duplicate key, 500
GenRenderError(g) ==
    /\ gen[g].pc = "render"
    /\ gen' = [gen EXCEPT ![g] =
                 GenError(500, "Failed to generate QR code", gen[g].inserts)]
    /\ UNCHANGED <<store, today, deletes, get, scanTask, an, budget, util>>

(***************************************************************************)
(* lib/db: the statements on scans.                                        *)
(***************************************************************************)
\* Mutant: qr_code_id without its REFERENCES qr_codes(id).
createScan_NoForeignKey(scan, now) ==
    [ok |-> TRUE,
     rows |-> << [id |-> scan_id_seq + 1, qr_code_id |-> scan.qr_code_id,
                  scanned_at |-> now, user_agent |-> scan.user_agent,
                  ip_address |-> scan.ip_address, country |-> scan.country,
                  city |-> scan.city, device_type |-> scan.device_type,
                  browser |-> scan.browser] >>]

\* INSERT INTO scans (...) VALUES (...): id and scanned_at take their defaults
\* (the day of NOW());
\* ok = FALSE is the violation of qr_code_id REFERENCES qr_codes(id).
createScan(scan, now) ==
    IF \E q \in qr_codes : q.id = scan.qr_code_id
    THEN [ok |-> TRUE,
          rows |-> << [id |-> scan_id_seq + 1, qr_code_id |-> scan.qr_code_id,
                       scanned_at |-> now, user_agent |-> scan.user_agent,
                       ip_address |-> scan.ip_address, country |-> scan.country,
                       city |-> scan.city, device_type |-> scan.device_type,
                       browser |-> scan.browser] >>]
    ELSE [ok |-> FALSE, rows |-> <<>>]

(***************************************************************************)
(* GET /r/{shortCode}                                                      *)
(***************************************************************************)
GetIdle == [pc |-> "idle", shortCode |-> NULL, client |-> None, qrCode |-> None,
            status |-> 0, location |-> NULL]
GetAnswer(status, location) ==
    [GetIdle EXCEPT !.pc = "done", !.status = status, !.location = location]
NoTask == [state |-> "none", scan |-> None, logged |-> FALSE]

\* the request arrives and its SELECT by short code executes
GetLookup(r) ==
    /\ get[r].pc = "idle"
    /\ budget > 0 /\ budget' = budget - 1
    /\ \E c \in Paths, cl \in Clients :
          get' = [get EXCEPT ![r] = [@ EXCEPT !.pc = "resolved", !.shortCode = c,
                                             !.client = Some(cl),
                                             !.qrCode = getQRCodeByShortCode(c)]]
    /\ UNCHANGED <<store, today, deletes, gen, scanTask, an, util>>

\* Mutant: a failed lookup is answered as an unknown code.
GetLookupError_NotFound(r) ==
    /\ get[r].pc = "idle"
    /\ budget > 0 /\ budget' = budget - 1
    /\ get' = [get EXCEPT ![r] = GetAnswer(404, NULL)]
    /\ UNCHANGED <<store, today, deletes, gen, scanTask, an, util>>

\* getQRCodeByShortCode rejects: the outer catch answers 500
GetLookupError(r) ==
    /\ get[r].pc = "idle"
    /\ budget > 0 /\ budget' = budget - 1
    /\ get' = [get EXCEPT ![r] = GetAnswer(500, NULL)]
    /\ UNCHANGED <<store, today, deletes, gen, scanTask, an, util>>

\* Mutant: the request IP is stored as received.
ScanOf_RawIP(qrCode, client) ==
    LET ua == parseUserAgent(client.userAgent)
        ip == OrElse(client.xForwardedFor, client.xRealIp)
    IN  [qr_code_id |-> qrCode.id, user_agent |-> client.userAgent,
         ip_address |-> ip, country |-> OrNull(client.country),
         city |-> OrNull(client.city), device_type |-> ua.device_type,
         browser |-> ua.browser]

\* the argument of createScan, from the resolved row and the request headers
ScanOf(qrCode, client) ==
    LET ua == parseUserAgent(client.userAgent)
        ip == OrElse(client.xForwardedFor, client.xRealIp)
    IN  [qr_code_id |-> qrCode.id, user_agent |-> client.userAgent,
         ip_address |-> truncateIP(ip), country |-> OrNull(client.country),
         city |-> OrNull(client.city), device_type |-> ua.device_type,
         browser |-> ua.browser]

\* Mutant: await createScan(...) before the redirect is returned.
GetContinue_Awaits(r) ==
    /\ get[r].pc = "resolved"
    /\ IF get[r].qrCode = None
       THEN /\ get' = [get EXCEPT ![r] = GetAnswer(404, NULL)]
            /\ UNCHANGED <<scanTask, scans, scan_id_seq, today>>
       ELSE LET qrCode == get[r].qrCode[1]
                res == createScan(ScanOf(qrCode, get[r].client[1]), today)
            IN  /\ today' = today
                /\ IF res.ok
                   THEN /\ scans' = scans \cup {res.rows[1]}
                        /\ scan_id_seq' = scan_id_seq + 1
                        /\ scanTask' = [scanTask EXCEPT ![r] =
                                          [NoTask EXCEPT !.state = "fulfilled"]]
                        /\ get' = [get EXCEPT ![r] = GetAnswer(302, qrCode.target_url)]
                   ELSE /\ UNCHANGED <<scans, scan_id_seq>>
                        /\ scanTask' = [scanTask EXCEPT ![r] =
                                          [NoTask EXCEPT !.state = "rejected"]]
                        /\ get' = [get EXCEPT ![r] = GetAnswer(500, NULL)]
    /\ UNCHANGED <<qr_codes, qr_id_seq, deletes, gen, an, budget, util>>

\* Mutant: the scan is tracked before the not-found check.
GetContinue_TracksFirst(r) ==
    /\ get[r].pc = "resolved"
    /\ LET qrCode == IF get[r].qrCode = None THEN [id |-> 0, target_url |-> NULL]
                     ELSE get[r].qrCode[1]
       IN  /\ scanTask' = [scanTask EXCEPT ![r] =
                             [state |-> "pending",
                              scan |-> Some(ScanOf(qrCode, get[r].client[1])),
                              logged |-> FALSE]]
           /\ get' = [get EXCEPT ![r] =
                        IF get[r].qrCode = None THEN GetAnswer(404, NULL)
                        ELSE GetAnswer(302, qrCode.target_url)]
    /\ UNCHANGED <<store, today, deletes, gen, an, budget, util>>

\* the code after the lookup, which runs to its return without awaiting:
\* 404 on a miss; on a hit createScan(...).catch(...) is started and the
\* redirect returned (NextResponse.redirect throws on a URL it cannot parse)
GetContinue(r) ==
    /\ get[r].pc = "resolved"
    /\ IF get[r].qrCode = None
       THEN /\ get' = [get EXCEPT ![r] = GetAnswer(404, NULL)]
            /\ UNCHANGED scanTask
       ELSE LET qrCode == get[r].qrCode[1]
            IN  /\ scanTask' = [scanTask EXCEPT ![r] =
                                  [state |-> "pending",
                                   scan |-> Some(ScanOf(qrCode, get[r].client[1])),
                                   logged |-> FALSE]]
                /\ get' = [get EXCEPT ![r] =
                             IF IsURL(qrCode.target_url)
                             THEN GetAnswer(302, qrCode.target_url)
                             ELSE GetAnswer(500, NULL)]
    /\ UNCHANGED <<store, today, deletes, gen, an, budget, util>>

\* Mutant: the increment_scan_count trigger of schema.sql enabled.
ScanInsert_TriggerEnabled(r) ==
    /\ scanTask[r].state = "pending"
    /\ \E d \in today..MaxDay : today' = d
    /\ LET res == createScan(scanTask[r].scan[1], today')
       IN  IF res.ok
           THEN /\ scans' = scans \cup {res.rows[1]}
                /\ scan_id_seq' = scan_id_seq + 1
                /\ qr_codes' = {IF q.id = res.rows[1].qr_code_id
                                THEN [q EXCEPT !.scan_count = @ + 1] ELSE q : q \in qr_codes}
                /\ scanTask' = [scanTask EXCEPT ![r] = [NoTask EXCEPT !.state = "fulfilled"]]
           ELSE /\ scanTask' = [scanTask EXCEPT ![r] =
                                  [NoTask EXCEPT !.state = "rejected", !.logged = TRUE]]
                /\ UNCHANGED <<scans, scan_id_seq, qr_codes>>
    /\ UNCHANGED <<qr_id_seq, deletes, gen, get, an, budget, util>>

\* Mutant: the insertion also recounts the scans of its QRCode into scan_count.
ScanInsert_Recounts(r) ==
    /\ scanTask[r].state = "pending"
    /\ \E d \in today..MaxDay : today' = d
    /\ LET res == createScan(scanTask[r].scan[1], today')
       IN  IF res.ok
           THEN /\ scans' = scans \cup {res.rows[1]}
                /\ scan_id_seq' = scan_id_seq + 1
                /\ qr_codes' =
                      {[q EXCEPT !.scan_count =
                           Cardinality({s \in scans' : s.qr_code_id = q.id})] : q \in qr_codes}
                /\ scanTask' = [scanTask EXCEPT ![r] = [NoTask EXCEPT !.state = "fulfilled"]]
           ELSE /\ scanTask' = [scanTask EXCEPT ![r] =
                                  [NoTask EXCEPT !.state = "rejected", !.logged = TRUE]]
                /\ UNCHANGED <<scans, scan_id_seq, qr_codes>>
    /\ UNCHANGED <<qr_id_seq, deletes, gen, get, an, budget, util>>

\* the INSERT of the detached createScan executes, on the day NOW() then reads
\* (the clock is advanced here, where it is read); a rejection (the foreign
\* key) reaches only the .catch callback, which logs it
ScanInsert(r) ==
    /\ scanTask[r].state = "pending"
    /\ \E d \in today..MaxDay : today' = d
    /\ LET res == createScan(scanTask[r].scan[1], today')
       IN  IF res.ok
           THEN /\ scans' = scans \cup {res.rows[1]}
                /\ scan_id_seq' = scan_id_seq + 1
                /\ scanTask' = [scanTask EXCEPT ![r] = [NoTask EXCEPT !.state = "fulfilled"]]
           ELSE /\ scanTask' = [scanTask EXCEPT ![r] =
                                  [NoTask EXCEPT !.state = "rejected", !.logged = TRUE]]
                /\ UNCHANGED <<scans, scan_id_seq>>
    /\ UNCHANGED <<qr_codes, qr_id_seq, deletes, gen, get, an, budget, util>>

\* Mutant: the rejection is not caught and fails the request.
ScanError_Propagates(r) ==
    /\ scanTask[r].state = "pending"
    /\ scanTask' = [scanTask EXCEPT ![r] = [NoTask EXCEPT !.state = "rejected"]]
    /\ get' = [get EXCEPT ![r] = GetAnswer(500, NULL)]
    /\ UNCHANGED <<store, today, deletes, gen, an, budget, util>>

\* Mutant: the .catch callback logs and starts the insertion again.
ScanError_Retries(r) ==
    /\ scanTask[r].state = "pending"
    /\ scanTask' = [scanTask EXCEPT ![r] = [@ EXCEPT !.logged = TRUE]]
    /\ UNCHANGED <<store, today, deletes, gen, get, an, budget, util>>

\* createScan rejects on a storage failure: caught and logged by .catch
ScanError(r) ==
    /\ scanTask[r].state = "pending"
    /\ scanTask' = [scanTask EXCEPT ![r] =
                      [NoTask EXCEPT !.state = "rejected", !.logged = TRUE]]
    /\ UNCHANGED <<store, today, deletes, gen, get, an, budget, util>>

(***************************************************************************)
(* lib/db: the analytics queries, and parseInt on the strings they and the *)
(* route read.                                                             *)
(***************************************************************************)
Digits == <<"0", "1", "2", "3", "4", "5", "6", "7", "8", "9">>
IsDigit(c) == \E d \in 1..10 : Digits[d] = c
DigitValue(c) == (CHOOSE d \in 1..10 : Digits[d] = c) - 1

\* parseInt(s): an optional sign, then the longest run of leading decimal
\* digits; NaN when there is none
RECURSIVE DigitsValue(_, _)
DigitsValue(s, acc) ==
    IF s = <<>> \/ ~IsDigit(Head(s)) THEN acc
    ELSE DigitsValue(Tail(s), 10 * acc + DigitValue(Head(s)))

parseInt(s) ==
    LET neg == s # <<>> /\ Head(s) = "-"
        t == IF s # <<>> /\ Head(s) \in {"-", "+"} THEN Tail(s) ELSE s
    IN  IF t = <<>> \/ ~IsDigit(Head(t))
        THEN [nan |-> TRUE, value |-> 0]
        ELSE [nan |-> FALSE,
              value |-> IF neg THEN 0 - DigitsValue(t, 0) ELSE DigitsValue(t, 0)]

\* the text a bigint COUNT(*) comes back as
RECURSIVE CountText(_)
CountText(n) ==
    IF n < 10 THEN <<Digits[n + 1]>>
    ELSE CountText(n \div 10) \o <<Digits[(n % 10) + 1]>>

ScansOf(qrCodeId) == {s \in scans : s.qr_code_id = qrCodeId}

\* Mutant: the total read from the denormalized qr_codes.scan_count.
getTotalScans_FromCounter(qrCodeId) ==
    LET q == {x \in qr_codes : x.id = qrCodeId}
    IN  IF q = {} THEN 0 ELSE (CHOOSE x \in q : TRUE).scan_count

\* SELECT COUNT(*) FROM scans WHERE qr_code_id = $1; parseInt(rows[0].count)
getTotalScans(qrCodeId) == parseInt(CountText(Cardinality(ScansOf(qrCodeId)))).value

\* the orders in which a statement may return the groups `keys`: every
\* enumeration without ORDER BY, those of non-increasing count with
\* ORDER BY count DESC
RECURSIVE GroupOrdersOf(_, _)
GroupOrdersOf(groups, byCountDesc) ==
    IF groups = {} THEN {<<>>}
    ELSE UNION {{<<g[1]>> \o o : o \in GroupOrdersOf(groups \ {g}, byCountDesc)} :
                   g \in {x \in groups :
                             byCountDesc => \A y \in groups : x[2] >= y[2]}}

GroupOrders(keys, counts, byCountDesc) ==
    GroupOrdersOf({<<k, counts[k]>> : k \in keys}, byCountDesc)

\* LIMIT n
Limit(rows, n) == SubSeq(rows, 1, IF Len(rows) < n THEN Len(rows) ELSE n)

COALESCE(v, d) == IF v = NULL THEN d ELSE v

\* Mutant: the days counted over the scans of every QRCode.
getScansByDate_AllCodes(qrCodeId) ==
    LET days == {s.scanned_at : s \in scans}
        count(d) == Cardinality({s \in scans : s.scanned_at = d})
        order == CHOOSE o \in [1..Cardinality(days) -> days] :
                     \A i, j \in DOMAIN o : i < j => o[i] < o[j]
    IN  [i \in 1..Cardinality(days) |->
            [date |-> order[i], count |-> parseInt(CountText(count(order[i]))).value]]

\* SELECT DATE(scanned_at), COUNT(*) ... GROUP BY DATE(scanned_at) ORDER BY date ASC
getScansByDate(qrCodeId) ==
    LET days == {s.scanned_at : s \in ScansOf(qrCodeId)}
        count(d) == Cardinality({s \in ScansOf(qrCodeId) : s.scanned_at = d})
        order == CHOOSE o \in [1..Cardinality(days) -> days] :
                     \A i, j \in DOMAIN o : i < j => o[i] < o[j]
    IN  [i \in 1..Cardinality(days) |->
            [date |-> order[i], count |-> parseInt(CountText(count(order[i]))).value]]

\* Mutant: the scans of unclassified devices are left out.
getDeviceBreakdown_KnownOnly(qrCodeId) ==
    LET rows == {s \in ScansOf(qrCodeId) : s.device_type \notin {NULL, "unknown"}}
        keys == {s.device_type : s \in rows}
        count(k) == Cardinality({s \in rows : s.device_type = k})
    IN  { [i \in DOMAIN o |->
              [device_type |-> o[i],
               count |-> parseInt(CountText(count(o[i]))).value]] :
          o \in GroupOrders(keys, [k \in keys |-> count(k)], FALSE) }

\* SELECT COALESCE(device_type, 'unknown'), COUNT(*) ... GROUP BY device_type:
\* the possible results
getDeviceBreakdown(qrCodeId) ==
    LET keys == {s.device_type : s \in ScansOf(qrCodeId)}
        count(k) == Cardinality({s \in ScansOf(qrCodeId) : s.device_type = k})
    IN  { [i \in DOMAIN o |->
              [device_type |-> COALESCE(o[i], "unknown"),
               count |-> parseInt(CountText(count(o[i]))).value]] :
          o \in GroupOrders(keys, [k \in keys |-> count(k)], FALSE) }

BROWSER_LIMIT == 10
LOCATION_LIMIT == 20

\* SELECT COALESCE(browser, 'unknown'), COUNT(*) ... GROUP BY browser
\* ORDER BY count DESC LIMIT 10: the possible results
getBrowserBreakdown(qrCodeId) ==
    LET keys == {s.browser : s \in ScansOf(qrCodeId)}
        count(k) == Cardinality({s \in ScansOf(qrCodeId) : s.browser = k})
    IN  { Limit([i \in DOMAIN o |->
                    [browser |-> COALESCE(o[i], "unknown"),
                     count |-> parseInt(CountText(count(o[i]))).value]],
                BROWSER_LIMIT) :
          o \in GroupOrders(keys, [k \in keys |-> count(k)], TRUE) }

\* SELECT COALESCE(country, 'unknown'), COALESCE(city, 'unknown'), COUNT(*) ...
\* GROUP BY country, city ORDER BY count DESC LIMIT 20: the possible results
getLocationBreakdown(qrCodeId) ==
    LET keys == {<<s.country, s.city>> : s \in ScansOf(qrCodeId)}
        count(k) == Cardinality({s \in ScansOf(qrCodeId) :
                                    <<s.country, s.city>> = k})
    IN  { Limit([i \in DOMAIN o |->
                    [country |-> COALESCE(o[i][1], "unknown"),
                     city |-> COALESCE(o[i][2], "unknown"),
                     count |-> parseInt(CountText(count(o[i]))).value]],
                LOCATION_LIMIT) :
          o \in GroupOrders(keys, [k \in keys |-> count(k)], TRUE) }

(***************************************************************************)
(* GET /api/analytics/{qrId}                                               *)
(***************************************************************************)
\* the path segments requests carry
IdSegments == {<<"1">>, <<"2">>, <<"1", "x">>, <<"a", "b", "c">>}

\* (segment is params.qrId, held while the handler runs)
AnIdle == [pc |-> "idle", segment |-> <<>>, qrId |-> 0, status |-> 0, total_scans |-> None,
           scans_by_date |-> None, device_breakdown |-> None,
           browser_breakdown |-> None, location_breakdown |-> None]
AnError(status) == [AnIdle EXCEPT !.pc = "done", !.status = status]

\* Mutant: no existence check before the aggregates.
AnCheck_NoExistence(a) ==
    /\ an[a].pc = "idle"
    /\ budget > 0 /\ budget' = budget - 1
    /\ \E seg \in IdSegments :
          LET qrId == parseInt(seg)
          IN  an' = [an EXCEPT ![a] =
                       IF qrId.nan THEN AnError(400)
                       ELSE [@ EXCEPT !.pc = "queries", !.segment = seg,
                                       !.qrId = qrId.value]]
    /\ UNCHANGED <<store, today, deletes, gen, get, scanTask, util>>

\* the request arrives: parseInt(params.qrId), 400 on NaN; the SELECT by id
\* executes, 404 when it returns no row
AnCheck(a) ==
    /\ an[a].pc = "idle"
    /\ budget > 0 /\ budget' = budget - 1
    /\ \E seg \in IdSegments :
          LET qrId == parseInt(seg)
          IN  an' = [an EXCEPT ![a] =
                       IF qrId.nan THEN AnError(400)
                       ELSE IF getQRCodeById(qrId.value) = <<>> THEN AnError(404)
                       ELSE [@ EXCEPT !.pc = "queries", !.segment = seg,
                                       !.qrId = qrId.value]]
    /\ UNCHANGED <<store, today, deletes, gen, get, scanTask, util>>

\* getQRCodeById rejects: 500
AnCheckError(a) ==
    /\ an[a].pc = "idle"
    /\ budget > 0 /\ budget' = budget - 1
    /\ an' = [an EXCEPT ![a] = AnError(500)]
    /\ UNCHANGED <<store, today, deletes, gen, get, scanTask, util>>

\* the five statements of Promise.all, each executing at its own time
AnTotalScans(a) ==
    /\ an[a].pc = "queries" /\ an[a].total_scans = None
    /\ an' = [an EXCEPT ![a].total_scans = Some(getTotalScans(an[a].qrId))]
    /\ UNCHANGED <<store, today, deletes, gen, get, scanTask, budget, util>>

AnScansByDate(a) ==
    /\ an[a].pc = "queries" /\ an[a].scans_by_date = None
    /\ an' = [an EXCEPT ![a].scans_by_date = Some(getScansByDate(an[a].qrId))]
    /\ UNCHANGED <<store, today, deletes, gen, get, scanTask, budget, util>>

AnDeviceBreakdown(a) ==
    /\ an[a].pc = "queries" /\ an[a].device_breakdown = None
    /\ \E rows \in getDeviceBreakdown(an[a].qrId) :
          an' = [an EXCEPT ![a].device_breakdown = Some(rows)]
    /\ UNCHANGED <<store, today, deletes, gen, get, scanTask, budget, util>>

AnBrowserBreakdown(a) ==
    /\ an[a].pc = "queries" /\ an[a].browser_breakdown = None
    /\ \E rows \in getBrowserBreakdown(an[a].qrId) :
          an' = [an EXCEPT ![a].browser_breakdown = Some(rows)]
    /\ UNCHANGED <<store, today, deletes, gen, get, scanTask, budget, util>>

AnLocationBreakdown(a) ==
    /\ an[a].pc = "queries" /\ an[a].location_breakdown = None
    /\ \E rows \in getLocationBreakdown(an[a].qrId) :
          an' = [an EXCEPT ![a].location_breakdown = Some(rows)]
    /\ UNCHANGED <<store, today, deletes, gen, get, scanTask, budget, util>>

\* one of the five rejects: Promise.all rejects, 500
AnQueryError(a) ==
    /\ an[a].pc = "queries"
    /\ an' = [an EXCEPT ![a] = AnError(500)]
    /\ UNCHANGED <<store, today, deletes, gen, get, scanTask, budget, util>>

\* all five have resolved: 200 with the analytics payload
AnRespond(a) ==
    /\ an[a].pc = "queries"
    /\ an[a].total_scans # None /\ an[a].scans_by_date # None
    /\ an[a].device_breakdown # None /\ an[a].browser_breakdown # None
    /\ an[a].location_breakdown # None
    /\ an' = [an EXCEPT ![a] = [@ EXCEPT !.pc = "done", !.segment = <<>>, !.status = 200]]
    /\ UNCHANGED <<store, today, deletes, gen, get, scanTask, budget, util>>

(***************************************************************************)
(* The environment: an external deletion of a QRCode, which cascades to    *)
(* its scans.                                                              *)
(***************************************************************************)
DeleteQRCode(id) ==
    /\ deletes < MaxDeletes
    /\ \E q \in qr_codes : q.id = id
    /\ qr_codes' = {q \in qr_codes : q.id # id}
    /\ scans' = {s \in scans : s.qr_code_id # id}
    /\ deletes' = deletes + 1
    /\ UNCHANGED <<qr_id_seq, scan_id_seq, today, gen, get, scanTask, an, budget, util>>

(***************************************************************************)
(* lib/utils called on its own: truncateIP on the strings made of up to    *)
(* MaxSegs segments around one separator (one segment: no separator at     *)
(* all) and on some addresses of other shapes, parseUserAgent on the       *)
(* user-agent strings.  segs and sep say how a generated argument was      *)
(* built; they are not read by the functions.                              *)
(***************************************************************************)
Segments == {<<>>, <<"7">>, <<"db8">>}

SegLists == UNION {[1..n -> Segments] : n \in 1..MaxSegs}

IPv4Mapped == <<":", ":", "ffff", ":", "192", ".", "168", ".", "1", ".", "100">>

NoCall == [fn |-> "none", pc |-> "done", ip |-> None, segs |-> <<>>, sep |-> "",
           truncated |-> None, userAgent |-> NULL,
           parsed |-> [device_type |-> NULL, browser |-> NULL]]

TruncateCalls ==
    {[NoCall EXCEPT !.fn = "truncateIP", !.pc = "call", !.ip = Some(Join(segs, sep)),
                    !.segs = segs, !.sep = sep] :
         segs \in SegLists, sep \in {Dot, Colon}}
    \cup {[NoCall EXCEPT !.fn = "truncateIP", !.pc = "call", !.ip = Some(a),
                         !.segs = Split(a, Dot), !.sep = Dot] :
              a \in {IPv4, ForwardedList, IPv4Mapped}}
    \cup {[NoCall EXCEPT !.fn = "truncateIP", !.pc = "call", !.ip = Some(a),
                         !.segs = Split(a, Colon), !.sep = Colon] :
              a \in {IPv6, IPv6Short}}
    \cup {[NoCall EXCEPT !.fn = "truncateIP", !.pc = "call"]}

ClassifyCalls ==
    {[NoCall EXCEPT !.fn = "parseUserAgent", !.pc = "call", !.userAgent = ua] :
         ua \in UserAgents \cup {NULL}}

\* truncateIP(ip) returns
TruncateIPCall ==
    /\ util.fn = "truncateIP" /\ util.pc = "call"
    /\ util' = [util EXCEPT !.pc = "done", !.truncated = truncateIP(util.ip)]
    /\ UNCHANGED <<store, today, deletes, gen, get, scanTask, an, budget>>

\* parseUserAgent(userAgent) returns
ParseUserAgentCall ==
    /\ util.fn = "parseUserAgent" /\ util.pc = "call"
    /\ util' = [util EXCEPT !.pc = "done", !.parsed = parseUserAgent(util.userAgent)]
    /\ UNCHANGED <<store, today, deletes, gen, get, scanTask, an, budget>>

Init ==
    /\ qr_codes = {}
    /\ scans = {}
    /\ qr_id_seq = 0
    /\ scan_id_seq = 0
    /\ today = 1
    /\ deletes = 0
    /\ gen = [g \in GenReqs |-> GenIdle]
    /\ get = [r \in GetReqs |-> GetIdle]
    /\ scanTask = [r \in GetReqs |-> NoTask]
    /\ an = [a \in AnReqs |-> AnIdle]
    /\ budget = MaxRequests
    /\ util = NoCall

Next ==
    \/ \E g \in GenReqs : GenStart(g)
    \/ \E g \in GenReqs : GenInsert(g)
    \/ \E g \in GenReqs : GenInsertError(g)
    \/ \E g \in GenReqs : GenRender(g)
    \/ \E g \in GenReqs : GenRenderError(g)
    \/ \E r \in GetReqs : GetLookup(r)
    \/ \E r \in GetReqs : GetLookupError(r)
    \/ \E r \in GetReqs : GetContinue(r)
    \/ \E r \in GetReqs : ScanInsert(r)
    \/ \E r \in GetReqs : ScanError(r)
    \/ \E a \in AnReqs : AnCheck(a)
    \/ \E a \in AnReqs : AnCheckError(a)
    \/ \E a \in AnReqs : AnTotalScans(a)
    \/ \E a \in AnReqs : AnScansByDate(a)
    \/ \E a \in AnReqs : AnDeviceBreakdown(a)
    \/ \E a \in AnReqs : AnBrowserBreakdown(a)
    \/ \E a \in AnReqs : AnLocationBreakdown(a)
    \/ \E a \in AnReqs : AnQueryError(a)
    \/ \E a \in AnReqs : AnRespond(a)
    \/ \E id \in 1..qr_id_seq : DeleteQRCode(id)

Spec == Init /\ [][Next]_vars

\* the same program started on the seeded database
InitSeeded ==
    /\ \E hour \in SeedHours : scans = SeedScans(hour)
    /\ qr_codes = SeedQRCodes
    /\ qr_id_seq = 3
    /\ scan_id_seq = 5
    /\ today = 1
    /\ deletes = 0
    /\ gen = [g \in GenReqs |-> GenIdle]
    /\ get = [r \in GetReqs |-> GetIdle]
    /\ scanTask = [r \in GetReqs |-> NoTask]
    /\ an = [a \in AnReqs |-> AnIdle]
    /\ budget = MaxSeededRequests
    /\ util = NoCall

SpecSeeded == InitSeeded /\ [][Next]_vars

(***************************************************************************)
(* The program on a database that has been in use: QRCode 1 of the seed    *)
(* with scans from nl locations and up to nb browsers, the i-th location   *)
(* scanned i times (the first twice), one scan a day in turn over days     *)
(* 0..MaxDay.  Two of the locations are the same country, once without a   *)
(* city header and once with the city header 'unknown': the two most       *)
(* frequent ones when `frequent`, the two least frequent ones otherwise.   *)
(* QRCode 2 has two scans, on days 0 and MaxDay.                           *)
(***************************************************************************)
LocationScans(i) == IF i = 1 THEN 2 ELSE i

RECURSIVE ScansUpTo(_)
ScansUpTo(i) == IF i = 0 THEN 0 ELSE LocationScans(i) + ScansUpTo(i - 1)

\* the location the k-th scan came from
LocationOf(k, nl) ==
    CHOOSE i \in 1..nl : ScansUpTo(i - 1) < k /\ k <= ScansUpTo(i)

DeviceTypes == <<"mobile", "tablet", "desktop">>

LargeScan(k, nl, nb, frequent) ==
    LET i == LocationOf(k, nl)
    IN  [id |-> k, qr_code_id |-> 1, scanned_at |-> k % (MaxDay + 1),
         user_agent |-> "Mozilla/5.0", ip_address |-> None,
         country |-> "US",
         city |-> IF i = (IF frequent THEN nl ELSE 1) THEN NULL
                  ELSE IF i = (IF frequent THEN nl - 1 ELSE 2) THEN "unknown"
                  ELSE "city" \o ToString(i),
         device_type |-> DeviceTypes[(i % 3) + 1],
         browser |-> "browser" \o ToString(IF i < nb THEN i ELSE nb)]

LargeTable(nl, nb, frequent) ==
    LET n == ScansUpTo(nl)
    IN  {LargeScan(k, nl, nb, frequent) : k \in 1..n}
        \cup {[id |-> n + 1, qr_code_id |-> 2, scanned_at |-> 0,
               user_agent |-> "Mozilla/5.0", ip_address |-> None, country |-> "CA",
               city |-> "Toronto", device_type |-> "desktop", browser |-> "Safari"],
              [id |-> n + 2, qr_code_id |-> 2, scanned_at |-> MaxDay,
               user_agent |-> "Mozilla/5.0", ip_address |-> None, country |-> "US",
               city |-> "Austin", device_type |-> "tablet", browser |-> "Safari"]}

InitLarge ==
    /\ \E nl \in {MaxLocations - 1, MaxLocations}, nb \in {MaxBrowsers - 1, MaxBrowsers},
          frequent \in BOOLEAN :
          /\ scans = LargeTable(nl, nb, frequent)
          /\ scan_id_seq = ScansUpTo(nl) + 2
    /\ qr_codes = SeedQRCodes
    /\ qr_id_seq = 3
    /\ today = MaxDay
    /\ deletes = 0
    /\ gen = [g \in GenReqs |-> GenIdle]
    /\ get = [r \in GetReqs |-> GetIdle]
    /\ scanTask = [r \in GetReqs |-> NoTask]
    /\ an = [a \in AnReqs |-> AnIdle]
    /\ budget = MaxLargeRequests
    /\ util = NoCall

SpecLarge == InitLarge /\ [][Next]_vars

\* the library functions called directly, the store left empty
InitUtils ==
    /\ qr_codes = {}
    /\ scans = {}
    /\ qr_id_seq = 0
    /\ scan_id_seq = 0
    /\ today = 1
    /\ deletes = 0
    /\ gen = [g \in GenReqs |-> GenIdle]
    /\ get = [r \in GetReqs |-> GetIdle]
    /\ scanTask = [r \in GetReqs |-> NoTask]
    /\ an = [a \in AnReqs |-> AnIdle]
    /\ budget = 0
    /\ util \in TruncateCalls \cup ClassifyCalls

NextUtils ==
    \/ TruncateIPCall
    \/ ParseUserAgentCall

SpecUtils == InitUtils /\ [][NextUtils]_vars

(***************************************************************************)
(* Properties.                                                             *)
(***************************************************************************)
Exists(id) == \E q \in qr_codes : q.id = id
Row(id) == CHOOSE q \in qr_codes : q.id = id

\* C1: in every reachable state no two rows of qr_codes have the same
\* short_code (nor the same id), however the insert steps of concurrent
\* generate requests interleave.
C1_ShortCodesUnique ==
    \A q1, q2 \in qr_codes :
        (q1.short_code = q2.short_code \/ q1.id = q2.id) => q1 = q2

\* C1 witness: two requests drew the same candidate code; one has inserted it,
\* the other has collided with it and is retrying.
C1_Witness ==
    \E g1, g2 \in GenReqs :
        /\ g1 # g2
        /\ gen[g1].pc = "render"
        /\ gen[g2].pc = "insert" /\ gen[g2].attempts >= 1
        /\ Cardinality(qr_codes) = 1
        /\ gen[g2].shortCode = gen[g1].shortCode

\* C2: a redirect request whose lookup returned a row answers 302 with that
\* row's target_url, and the answer stays 302 whether its createScan is
\* pending, fulfilled or rejected; a rejection is caught and logged.
C2_RedirectWhateverTracking ==
    /\ [](\A r \in GetReqs :
            /\ scanTask[r].state # "none" =>
                   get[r].pc = "done" /\ get[r].status = 302
            /\ scanTask[r].state = "rejected" => scanTask[r].logged)
    /\ [][\A r \in GetReqs :
            (get[r].pc = "resolved" /\ get[r].qrCode # None /\ get'[r].pc = "done")
            => /\ get'[r].status = 302
               /\ get'[r].location = get[r].qrCode[1].target_url]_vars

\* C2 witness: a 302 was answered and the scan insertion has failed.
C2_Witness ==
    \E r \in GetReqs :
        get[r].status = 302 /\ scanTask[r].state = "rejected" /\ scanTask[r].logged

\* C3: the step that returns the 302 is the step that starts createScan, and
\* it leaves the task pending: the insertion has not been awaited when the
\* redirect is returned, and until that step no task exists to wait on.
C3_RedirectDoesNotWait ==
    /\ [](\A r \in GetReqs : get[r].pc = "resolved" => scanTask[r].state = "none")
    /\ [][\A r \in GetReqs :
            (get[r].status # 302 /\ get'[r].status = 302)
            => /\ get[r].pc = "resolved"
               /\ scanTask[r].state = "none" /\ scanTask'[r].state = "pending"
               /\ scans' = scans]_vars

\* C3 witness: the redirect has been returned while the insertion is pending.
C3_Witness ==
    \E r \in GetReqs : get[r].status = 302 /\ scanTask[r].state = "pending"

\* C4: once generate has answered 201 with short_code c for targetUrl u, and
\* while that row is not deleted, every lookup of c that the store answers
\* returns the row, and the request redirects to exactly u.
C4_IssueThenRedirect ==
    /\ [][\A r \in GetReqs, g \in GenReqs :
            (/\ gen[g].status = 201 /\ Exists(gen[g].id)
             /\ get[r].pc = "idle" /\ get'[r].pc = "resolved"
             /\ get'[r].shortCode = gen[g].short_code)
            => /\ get'[r].qrCode # None
               /\ get'[r].qrCode[1].id = gen[g].id
               /\ get'[r].qrCode[1].target_url = gen[g].data[1].targetUrl]_vars
    /\ [][\A r \in GetReqs, g \in GenReqs :
            (/\ gen[g].status = 201
             /\ get[r].pc = "resolved" /\ get[r].qrCode # None
             /\ get[r].qrCode[1].id = gen[g].id
             /\ get'[r].pc = "done")
            => /\ get'[r].status = 302
               /\ get'[r].location = gen[g].data[1].targetUrl]_vars

\* C4 witness: a redirect to the URL a 201 was issued for, with another URL
\* stored under the other code.
C4_Witness ==
    \E r \in GetReqs, g \in GenReqs :
        /\ gen[g].status = 201 /\ Exists(gen[g].id)
        /\ get[r].status = 302 /\ get[r].location = gen[g].data[1].targetUrl
        /\ \E q \in qr_codes : q.target_url # get[r].location

\* C5: a redirect request whose lookup returned no row answers 404 in a step
\* that starts no createScan and leaves scans alone, and no createScan is
\* ever started for it.
C5_MissTracksNothing ==
    /\ [](\A r \in GetReqs : get[r].status = 404 => scanTask[r].state = "none")
    /\ [][\A r \in GetReqs :
            (get[r].pc = "resolved" /\ get[r].qrCode = None /\ get'[r].pc = "done")
            => /\ get'[r].status = 404
               /\ scanTask' = scanTask
               /\ scans' = scans]_vars

\* C5 witness: a 404 was answered although the store holds a QRCode and scans.
C5_Witness ==
    \E r \in GetReqs : get[r].status = 404 /\ qr_codes # {} /\ scans # {}

\* C6: a generate request makes at most 5 createQRCode calls; a call that
\* collides creates nothing and, before the 5th, leaves the request retrying
\* with a drawn code; the 5th collision ends it with 500 'Failed to generate
\* unique short code' and no id.
C6_AtMostFiveInserts ==
    /\ [](\A g \in GenReqs :
            /\ gen[g].inserts <= 5
            /\ gen[g].pc = "insert" => gen[g].inserts = gen[g].attempts /\ gen[g].inserts < 5
            /\ gen[g].error = "Failed to generate unique short code"
               => gen[g].status = 500 /\ gen[g].inserts = 5 /\ gen[g].id = 0)
    /\ [][\A g \in GenReqs :
            (gen[g].pc = "insert" /\ gen'[g].inserts = gen[g].inserts + 1
             /\ gen'[g].pc # "render")
            => /\ qr_codes' = qr_codes
               /\ (gen[g].inserts < 4 /\ gen'[g].error # "storage")
                  => gen'[g].pc = "insert" /\ gen'[g].shortCode \in Codes]_vars

\* C6 witness: a request has failed after its fifth collision.
C6_Witness ==
    \E g \in GenReqs :
        gen[g].error = "Failed to generate unique short code" /\ gen[g].inserts = 5

\* C7 (as claimed): every redirect that answered 302 gets its ScanEvent
\* persisted: once its insertion has settled, the ScanEvent has been written.
C7_EveryRedirectPersisted ==
    \A r \in GetReqs :
        (get[r].status = 302 /\ scanTask[r].state # "pending")
        => scanTask[r].state = "fulfilled"

\* C7 (amended): every redirect that answered 302 has started one insertion;
\* when that insertion succeeds it adds exactly one ScanEvent owned by the
\* resolved QRCode, after the 302 was returned; when it is rejected nothing
\* is written and it is never retried; and scans grows in no other way.
C7_PersistedAfterRedirectUnlessDropped ==
    /\ [](\A r \in GetReqs : get[r].status = 302 => scanTask[r].state # "none")
    /\ [][\A r \in GetReqs :
            (scanTask[r].state = "pending" /\ scanTask'[r].state = "fulfilled")
            => /\ get[r].status = 302
               /\ \E s \in scans' :
                     /\ s \notin scans
                     /\ scans' = scans \cup {s}
                     /\ s.qr_code_id = scanTask[r].scan[1].qr_code_id]_vars
    /\ [][\A r \in GetReqs :
            (scanTask[r].state # "rejected" /\ scanTask'[r].state = "rejected")
            => scanTask[r].state = "pending" /\ scans' = scans]_vars
    /\ [][\A r \in GetReqs :
            scanTask[r].state \in {"fulfilled", "rejected"} => scanTask'[r] = scanTask[r]]_vars
    /\ [][~(scans' \subseteq scans)
            => \E r \in GetReqs :
                  scanTask[r].state = "pending" /\ scanTask'[r].state = "fulfilled"]_vars

\* C7 witness: a ScanEvent of the resolved QRCode was persisted after the 302.
C7_Witness ==
    \E r \in GetReqs :
        /\ get[r].status = 302 /\ scanTask[r].state = "fulfilled"
        /\ \E s \in scans, q \in qr_codes :
              s.qr_code_id = q.id /\ q.target_url = get[r].location

\* the stored form keeps nothing of the host part of the raw address: the
\* last dot-separated segment is zeroed, no colon-separated group after the
\* fourth is kept
HostPartRemoved(raw, stored) ==
    IF Includes(raw, Dot)
    THEN LET p == Split(raw, Dot)
             q == Split(stored, Dot)
         IN  Len(q) = Len(p) /\ q[Len(q)] = <<"0">>
    ELSE IF Includes(raw, Colon)
    THEN LET p == Split(raw, Colon)
             q == Split(stored, Colon)
         IN  \A i \in 5..Len(p) : p[i] # <<>> => \A j \in DOMAIN q : q[j] # p[i]
    ELSE TRUE

\* C8: createScan is started with truncateIP of the request IP
\* (x-forwarded-for, else x-real-ip), and for every non-null request IP that
\* ip_address no longer contains the host part of the raw address.
C8_HostPartNeverStored ==
    [][\A r \in GetReqs :
          (scanTask[r].state = "none" /\ scanTask'[r].state = "pending")
          => LET cl == get[r].client[1]
                 raw == OrElse(cl.xForwardedFor, cl.xRealIp)
                 stored == scanTask'[r].scan[1].ip_address
             IN  (raw # None /\ raw # Some(<<>>))
                 => stored # None /\ HostPartRemoved(raw[1], stored[1])]_vars

\* C9: the total_scans an analytics request reads, and answers with, is the
\* number of rows of scans whose qr_code_id is the requested id when the
\* count statement executes, whatever qr_codes.scan_count holds.
C9_TotalIsScanCount ==
    /\ [][\A a \in AnReqs :
            (an[a].total_scans = None /\ an'[a].total_scans # None)
            => an'[a].total_scans[1]
                   = Cardinality({s.id : s \in {x \in scans : x.qr_code_id = an[a].qrId}})]_vars
    /\ [][\A a \in AnReqs :
            (an[a].status # 200 /\ an'[a].status = 200)
            => an[a].total_scans # None /\ an'[a].total_scans = an[a].total_scans]_vars

\* C9 witness: a 200 whose total_scans is 3, of a QRCode with scan_count 0,
\* while the table holds scans of other QRCodes too.
C9_Witness ==
    \E a \in AnReqs :
        /\ an[a].status = 200 /\ an[a].total_scans = Some(3)
        /\ Exists(an[a].qrId) /\ Row(an[a].qrId).scan_count = 0
        /\ Cardinality(scans) > 3

\* C10 (as claimed): a 200 analytics payload is only ever answered for an id
\* whose QRCode exists.
C10_NoPayloadForMissingId ==
    [][\A a \in AnReqs :
          (an[a].status # 200 /\ an'[a].status = 200) => Exists(an[a].qrId)]_vars

\* C10 (without the deletion race): an analytics request goes on to its aggregate queries, and
\* so to a 200, only if a QRCode with the parsed id exists when its existence
\* check executes; otherwise it ends there, with 404 when the id is numeric.
C10_NotFoundAtExistenceCheck ==
    /\ [][\A a \in AnReqs :
            (an[a].pc = "idle" /\ an'[a].pc # "idle")
            => \/ an'[a].pc = "queries" /\ Exists(an'[a].qrId)
               \/ an'[a].pc = "done" /\ an'[a].status \in {400, 500}
               \/ /\ an'[a].pc = "done" /\ an'[a].status = 404
                  /\ \E seg \in IdSegments :
                        ~parseInt(seg).nan /\ ~Exists(parseInt(seg).value)]_vars
    /\ [][\A a \in AnReqs :
            (an[a].status # 200 /\ an'[a].status = 200) => an[a].pc = "queries"]_vars

\* C10 witness: a 404 for a numeric id that has no QRCode any more, the other
\* QRCodes and their scans being there.
C10_Witness ==
    \E a \in AnReqs : an[a].status = 404 /\ deletes > 0 /\ scans # {}

\* a path segment that is a decimal number and nothing else
IsNumeric(seg) == seg # <<>> /\ \A i \in 1..Len(seg) : IsDigit(seg[i])

\* C11: a qrId segment that is not entirely numeric is answered 400 at the id
\* check; only entirely numeric segments get past it, to the existence check
\* and the aggregate queries.
C11_OnlyNumericIdsPass ==
    \A a \in AnReqs : an[a].pc = "queries" => IsNumeric(an[a].segment)

TruncateReturned == util.fn = "truncateIP" /\ util.pc = "done"
ClassifyReturned == util.fn = "parseUserAgent" /\ util.pc = "done"
Min(a, b) == IF a < b THEN a ELSE b

\* C12: for every dotted input truncateIP returns the input with its last
\* dot-separated segment replaced by "0" and every other segment unchanged
\* (same number of segments, ending in ".0").
C12_LastSegmentZeroed ==
    (TruncateReturned /\ util.sep = Dot /\ Len(util.segs) >= 2)
    => LET n == Len(util.segs)
       IN  util.truncated
             = Some(Join([i \in 1..n |-> IF i = n THEN <<"0">> ELSE util.segs[i]], Dot))

\* C13: for every colon-delimited input that contains no dot truncateIP
\* returns the first four colon-separated groups (all of them when there are
\* fewer) joined by ':' and followed by '::', and nothing else.
C13_FirstFourGroups ==
    (TruncateReturned /\ util.sep = Colon /\ Len(util.segs) >= 2
        /\ ~Includes(util.ip[1], Dot))
    => util.truncated
         = Some(Join(SubSeq(util.segs, 1, Min(4, Len(util.segs))), Colon)
                  \o <<Colon, Colon>>)

\* C13 witness: an eight-group address came back as its first four groups and '::'.
C13_Witness ==
    /\ TruncateReturned /\ util.ip = Some(IPv6)
    /\ util.truncated = Some(<<"2001", ":", "db8", ":", "85a3", ":", "8d3", ":", ":">>)

\* C14 (as claimed): truncateIP(null) is null, and every non-null input with
\* neither '.' nor ':' is returned unchanged, the empty string included.
C14_PassThrough ==
    TruncateReturned
    => /\ util.ip = None => util.truncated = None
       /\ (util.ip # None /\ ~Includes(util.ip[1], Dot) /\ ~Includes(util.ip[1], Colon))
          => util.truncated = util.ip

\* C14 (amended): truncateIP(null) and truncateIP('') are null, and every
\* non-empty input with neither '.' nor ':' is returned unchanged.
C14_PassThroughUnlessEmpty ==
    TruncateReturned
    => /\ util.ip \in {None, Some(<<>>)} => util.truncated = None
       /\ (util.ip \notin {None, Some(<<>>)}
             /\ ~Includes(util.ip[1], Dot) /\ ~Includes(util.ip[1], Colon))
          => util.truncated = util.ip

\* C14 witness: the empty string came back as null.
C14_Witness == TruncateReturned /\ util.ip = Some(<<>>) /\ util.truncated = None

\* C15 (as claimed): an absent user-agent is classified (unknown, unknown),
\* and every present user-agent string gets mobile, tablet or desktop.
C15_UnknownOnlyWhenAbsent ==
    ClassifyReturned
    => /\ util.userAgent = NULL
          => util.parsed = [device_type |-> "unknown", browser |-> "unknown"]
       /\ util.userAgent # NULL
          => util.parsed.device_type \in {"mobile", "tablet", "desktop"}

\* C15 (amended): an absent or empty user-agent is classified
\* (unknown, unknown), and every non-empty one gets mobile, tablet or desktop.
C15_UnknownOnlyWhenAbsentOrEmpty ==
    ClassifyReturned
    => /\ util.userAgent \in {NULL, ""}
          => util.parsed = [device_type |-> "unknown", browser |-> "unknown"]
       /\ util.userAgent \notin {NULL, ""}
          => util.parsed.device_type \in {"mobile", "tablet", "desktop"}

\* C15 witness: a user-agent no device is detected in came back as desktop.
C15_Witness ==
    /\ ClassifyReturned /\ util.userAgent = "curl"
    /\ util.parsed = [device_type |-> "desktop", browser |-> "unknown"]

\* what C16 says of one user-agent: mobile exactly when mobile is detected,
\* tablet exactly when tablet is, desktop otherwise; the parsed browser name,
\* or 'unknown' when there is none
ClassifiedAsDetected(ua, parsed) ==
    LET detected == UAParser_getDevice(ua).type
        name == UAParser_getBrowser(ua).name
    IN  /\ parsed.device_type = "mobile" <=> detected = "mobile"
        /\ parsed.device_type = "tablet" <=> detected = "tablet"
        /\ detected \notin {"mobile", "tablet"} => parsed.device_type = "desktop"
        /\ parsed.browser = IF name = NULL THEN "unknown" ELSE name

\* C16 (as claimed): every present user-agent is classified as detected.
C16_ClassifiedAsDetected ==
    (ClassifyReturned /\ util.userAgent # NULL)
    => ClassifiedAsDetected(util.userAgent, util.parsed)

\* C16 (amended): every non-empty user-agent is classified as detected; the
\* empty one is classified as an absent one, (unknown, unknown).
C16_NonEmptyClassifiedAsDetected ==
    /\ (ClassifyReturned /\ util.userAgent \notin {NULL, ""})
       => ClassifiedAsDetected(util.userAgent, util.parsed)
    /\ (ClassifyReturned /\ util.userAgent = "")
       => util.parsed = [device_type |-> "unknown", browser |-> "unknown"]

\* C16 witness: a smart TV, a class other than mobile and tablet, came back
\* as desktop with its browser's name.
C16_Witness ==
    /\ ClassifyReturned /\ util.userAgent = "SmartTV"
    /\ util.parsed = [device_type |-> "desktop", browser |-> "Samsung Internet"]

\* the columns of a scans row that createScan is given
ScanColumns(s) ==
    [qr_code_id |-> s.qr_code_id, user_agent |-> s.user_agent,
     ip_address |-> s.ip_address, country |-> s.country, city |-> s.city,
     device_type |-> s.device_type, browser |-> s.browser]

\* the step in which request r starts its createScan, and the one in which
\* that insertion writes its row
StartsScan(r) == scanTask[r].state = "none" /\ scanTask'[r].state = "pending"
WritesScan(r) == scanTask[r].state = "pending" /\ scanTask'[r].state = "fulfilled"

\* the row written is the scan the request started, and scans grows only so
ScanWrittenAsStarted ==
    /\ \A r \in GetReqs :
          WritesScan(r)
          => \E s \in scans' : /\ s \notin scans /\ scans' = scans \cup {s}
                               /\ ScanColumns(s) = scanTask[r].scan[1]
    /\ ~(scans' \subseteq scans) => \E r \in GetReqs : WritesScan(r)

\* C17 (as claimed): every ScanEvent the redirect path persists has the
\* resolved QRCode's id, the raw user-agent header and its classification,
\* truncate of the request IP (x-forwarded-for when that header is present,
\* else x-real-ip), and the country and city headers, null when absent.
C17_ScanFromRequest ==
    [][/\ \A r \in GetReqs :
            StartsScan(r)
            => LET cl == get[r].client[1]
                   ip == IF cl.xForwardedFor # None THEN cl.xForwardedFor ELSE cl.xRealIp
               IN  scanTask'[r].scan[1]
                     = [qr_code_id |-> get[r].qrCode[1].id,
                        user_agent |-> cl.userAgent,
                        ip_address |-> truncateIP(ip),
                        country |-> cl.country, city |-> cl.city,
                        device_type |-> parseUserAgent(cl.userAgent).device_type,
                        browser |-> parseUserAgent(cl.userAgent).browser]
       /\ ScanWrittenAsStarted]_vars

\* C17 (amended): the same, with an empty header counting as an absent one
\* for the request IP (an empty x-forwarded-for gives way to x-real-ip) and
\* for country and city (stored as null).
C17_ScanFromNonEmptyHeaders ==
    [][/\ \A r \in GetReqs :
            StartsScan(r)
            => LET cl == get[r].client[1]
                   ip == IF cl.xForwardedFor \notin {None, Some(<<>>)}
                         THEN cl.xForwardedFor ELSE cl.xRealIp
               IN  scanTask'[r].scan[1]
                     = [qr_code_id |-> get[r].qrCode[1].id,
                        user_agent |-> cl.userAgent,
                        ip_address |-> truncateIP(ip),
                        country |-> IF cl.country = "" THEN NULL ELSE cl.country,
                        city |-> IF cl.city = "" THEN NULL ELSE cl.city,
                        device_type |-> parseUserAgent(cl.userAgent).device_type,
                        browser |-> parseUserAgent(cl.userAgent).browser]
       /\ ScanWrittenAsStarted]_vars

\* C17 witness: the scan of a request with an empty x-forwarded-for, an
\* x-real-ip and both edge headers has been persisted.
C17_Witness ==
    \E r \in GetReqs, s \in scans, q \in qr_codes :
        /\ scanTask[r].state = "fulfilled" /\ get[r].status = 302
        /\ s.qr_code_id = q.id /\ q.target_url = get[r].location
        /\ s.user_agent = "iPhone Safari" /\ s.device_type = "mobile"
        /\ s.browser = "Mobile Safari"
        /\ s.ip_address = Some(<<"203", ".", "0", ".", "113", ".", "0">>)
        /\ s.country = "US" /\ s.city = "Austin"

\* a body with a URL as targetUrl and, where given, #RRGGBB colours
ValidBody(b) ==
    /\ b.targetUrl \in ParseableURLs
    /\ b.fgColor # None => IsHexColor(b.fgColor[1])
    /\ b.bgColor # None => IsHexColor(b.bgColor[1])

\* C18: a generate request whose body is invalid (targetUrl not a URL, or a
\* colour given that is not #RRGGBB) is answered 400 with no insert attempt
\* and the store unchanged; only valid bodies go on to insert, and the row
\* inserted has the body's targetUrl and colours, #000000 and #FFFFFF for
\* the omitted ones.
C18_InvalidBodyRejected ==
    /\ [](\A g \in GenReqs : gen[g].status = 400 => gen[g].inserts = 0)
    /\ [][\A g \in GenReqs :
            (gen[g].pc = "idle" /\ gen'[g].pc # "idle")
            => /\ store' = store
               /\ \/ gen'[g].pc = "done" /\ gen'[g].status = 400 /\ gen'[g].body = None
                  \/ /\ gen'[g].pc = "insert" /\ gen'[g].inserts = 0
                     /\ gen'[g].body # None /\ ValidBody(gen'[g].body[1])]_vars
    /\ [][\A g \in GenReqs :
            (gen[g].pc = "insert" /\ gen'[g].pc = "render")
            => LET b == gen[g].body[1]
               IN  \E q \in qr_codes' :
                      /\ q \notin qr_codes /\ qr_codes' = qr_codes \cup {q}
                      /\ q.target_url = b.targetUrl
                      /\ q.fg_color = IF b.fgColor = None
                                      THEN <<"#", "0", "0", "0", "0", "0", "0">>
                                      ELSE b.fgColor[1]
                      /\ q.bg_color = IF b.bgColor = None
                                      THEN <<"#", "F", "F", "F", "F", "F", "F">>
                                      ELSE b.bgColor[1]]_vars

\* C18 witness: one request was answered 400 and the store holds only the
\* row of another, whose body gave no colours, with the two defaults.
C18_Witness ==
    \E g, h \in GenReqs :
        /\ gen[g].status = 400 /\ gen[g].inserts = 0
        /\ gen[h].status = 201 /\ gen[h].body # None
        /\ gen[h].body[1].fgColor = None /\ gen[h].body[1].bgColor = None
        /\ \E q \in qr_codes :
              /\ qr_codes = {q} /\ q.id = gen[h].id
              /\ q.fg_color = <<"#", "0", "0", "0", "0", "0", "0">>
              /\ q.bg_color = <<"#", "F", "F", "F", "F", "F", "F">>

\* C19: in every reachable state each row of scans references an existing
\* QRCode: a deletion removes the QRCode's scans with it, and an insertion
\* still pending when its QRCode is deleted fails and writes nothing.
C19_NoOrphanScans ==
    /\ [](\A s \in scans : \E q \in qr_codes : q.id = s.qr_code_id)
    /\ [][\A q \in qr_codes :
            (\A p \in qr_codes' : p.id # q.id)
            => \A s \in scans' : s.qr_code_id # q.id]_vars
    /\ [][\A r \in GetReqs :
            (/\ scanTask[r].state = "pending" /\ scanTask'[r].state # "pending"
             /\ \A q \in qr_codes : q.id # scanTask[r].scan[1].qr_code_id)
            => scanTask'[r].state = "rejected" /\ scans' = scans]_vars

\* C19 witness: a QRCode with one persisted scan and one insertion pending was
\* deleted; its scan went with it and the pending insertion was rejected.
C19_Witness ==
    \E r1, r2 \in GetReqs :
        /\ scanTask[r1].state = "fulfilled"
        /\ scanTask[r2].state = "rejected" /\ scanTask[r2].logged
        /\ deletes = 1 /\ qr_id_seq = 1 /\ scan_id_seq = 1
        /\ qr_codes = {} /\ scans = {}

\* C20: no step of a generate, redirect or analytics request changes or
\* removes an existing qr_codes or scans row (rows are only added, under a
\* fresh id), and an external deletion only removes rows.
C20_RecordsNeverModified ==
    [][IF deletes' = deletes
       THEN /\ qr_codes \subseteq qr_codes' /\ scans \subseteq scans'
            /\ \A q \in qr_codes' : q \notin qr_codes => q.id > qr_id_seq
            /\ \A s \in scans' : s \notin scans => s.id > scan_id_seq
       ELSE qr_codes' \subseteq qr_codes /\ scans' \subseteq scans]_vars

\* C20 witness: a QRCode was issued, scanned and summarized, and its row is
\* still as it was inserted.
C20_Witness ==
    \E g \in GenReqs, r \in GetReqs, a \in AnReqs, q \in qr_codes :
        /\ gen[g].status = 201 /\ q.id = gen[g].id
        /\ q.short_code = gen[g].short_code
        /\ q.target_url = gen[g].data[1].targetUrl
        /\ q.fg_color = gen[g].data[1].fgColor /\ q.bg_color = gen[g].data[1].bgColor
        /\ q.scan_count = 0
        /\ scanTask[r].state = "fulfilled" /\ get[r].location = q.target_url
        /\ \E s \in scans : s.qr_code_id = q.id
        /\ an[a].status = 200 /\ an[a].qrId = q.id /\ an[a].total_scans = Some(1)

\* C21: the scan_count of every QRCode is 0 from its creation on, whatever
\* scans have been recorded, so it differs from the total the analytics
\* count query returns as soon as the QRCode has one ScanEvent.
C21_CounterStaysZero ==
    \A q \in qr_codes :
        /\ q.scan_count = 0
        /\ (\E s \in scans : s.qr_code_id = q.id) => getTotalScans(q.id) # q.scan_count

\* C21 witness: a QRCode issued through generate with two recorded scans and
\* scan_count 0.
C21_Witness ==
    \E g \in GenReqs, q \in qr_codes :
        /\ gen[g].status = 201 /\ gen[g].id = q.id /\ q.scan_count = 0
        /\ \A r \in GetReqs : scanTask[r].state = "fulfilled"
        /\ Cardinality({s \in scans : s.qr_code_id = q.id}) = NumGet

\* C22: an insert attempt of generate that fails although its short code is
\* not taken (a storage error, no uniqueness violation) ends the request:
\* 500 right after that attempt, nothing inserted, and no step after it.
C22_StorageErrorNotRetried ==
    /\ [][\A g \in GenReqs :
            (/\ gen[g].pc = "insert" /\ gen'[g].inserts = gen[g].inserts + 1
             /\ qr_codes' = qr_codes
             /\ \A q \in qr_codes : q.short_code # gen[g].shortCode)
            => /\ gen'[g].pc = "done" /\ gen'[g].status = 500
               /\ gen'[g].id = 0 /\ store' = store]_vars
    /\ [][\A g \in GenReqs : gen[g].pc = "done" => gen'[g] = gen[g]]_vars

\* C22 witness: a request ended with 500 on a storage error at its second
\* attempt, the first having collided with the only row there is.
C22_Witness ==
    \E g \in GenReqs :
        /\ gen[g].pc = "done" /\ gen[g].status = 500 /\ gen[g].error = "storage"
        /\ gen[g].inserts = 2 /\ Cardinality(qr_codes) = 1

\* C23: a redirect request whose short-code lookup fails is answered 500 in
\* that step, not 302 nor 404, with the store unchanged, and its createScan
\* is never started.
C23_LookupFailureIs500 ==
    /\ [][\A r \in GetReqs :
            (get[r].pc = "idle" /\ get'[r].pc = "done")
            => /\ get'[r].status = 500 /\ get'[r].location = NULL
               /\ scanTask'[r].state = "none" /\ store' = store]_vars
    /\ [][\A r \in GetReqs :
            (get[r].pc = "done" /\ scanTask[r].state = "none")
            => scanTask'[r].state = "none" /\ get'[r] = get[r]]_vars

\* C23 witness: a lookup failed with 500 while a QRCode was stored, and no
\* scan was started or written.
C23_Witness ==
    \E r \in GetReqs :
        /\ get[r].pc = "done" /\ get[r].status = 500 /\ scanTask[r].state = "none"
        /\ qr_codes # {} /\ scans = {} /\ scan_id_seq = 0

\* C24: a redirect request starts its scan insertion once, when it resolves
\* its QRCode, for that QRCode; the insertion settles once, fulfilled with
\* one row written or rejected, logged and dropped; so the rows ever written
\* are as many as the fulfilled insertions, at most one per resolved request.
C24_OneInsertionPerRedirect ==
    /\ [](\A r \in GetReqs : scanTask[r].logged => scanTask[r].state = "rejected")
    /\ [](scan_id_seq = Cardinality({r \in GetReqs : scanTask[r].state = "fulfilled"}))
    /\ [](Cardinality(scans) <= scan_id_seq)
    /\ [][\A r \in GetReqs :
            scanTask'[r] # scanTask[r]
            => \/ /\ StartsScan(r) /\ get[r].pc = "resolved" /\ get[r].qrCode # None
                  /\ scanTask'[r].scan[1].qr_code_id = get[r].qrCode[1].id
               \/ /\ WritesScan(r)
                  /\ \E s \in scans' :
                        /\ s \notin scans /\ scans' = scans \cup {s}
                        /\ s.qr_code_id = scanTask[r].scan[1].qr_code_id
               \/ /\ scanTask[r].state = "pending" /\ scanTask'[r].state = "rejected"
                  /\ scans' = scans]_vars
    /\ [][~(scans' \subseteq scans) => Cardinality({r \in GetReqs : WritesScan(r)}) = 1]_vars

\* C24 witness: two requests resolved the same QRCode; one insertion was
\* written, the other failed and was dropped: one ScanEvent for two redirects.
C24_Witness ==
    \E r1, r2 \in GetReqs :
        /\ get[r1].status = 302 /\ get[r2].status = 302
        /\ get[r1].location = get[r2].location
        /\ scanTask[r1].state = "fulfilled"
        /\ scanTask[r2].state = "rejected" /\ scanTask[r2].logged
        /\ Cardinality(scans) = 1 /\ deletes = 0

\* C27: a generate request that ends with 400 or 500 leaves no QRCode it
\* created in the store, also when the rendering of the image fails after
\* its insert succeeded.
C27_ErrorLeavesNoQRCode ==
    [][\A g \in GenReqs :
          (gen[g].pc # "done" /\ gen'[g].pc = "done" /\ gen'[g].status \in {400, 500})
          => (gen[g].qrCode # None => gen[g].qrCode[1] \notin qr_codes')]_vars

\* the sum of the counts of the rows of an aggregate
RECURSIVE SumCounts(_)
SumCounts(rows) ==
    IF rows = <<>> THEN 0 ELSE Head(rows).count + SumCounts(Tail(rows))

\* C28 (as claimed): in every 200 analytics response the counts of
\* device_breakdown and those of scans_by_date both sum to total_scans.
C28_ResponseConsistent ==
    \A a \in AnReqs :
        an[a].status = 200
        => /\ SumCounts(an[a].device_breakdown[1]) = an[a].total_scans[1]
           /\ SumCounts(an[a].scans_by_date[1]) = an[a].total_scans[1]

\* C28 (amended): total_scans, the sum of device_breakdown and the sum of
\* scans_by_date each equal the number of the QRCode's ScanEvents at the
\* time their own query executes, and the response carries them as read.
C28_EachAggregateConsistentWhenRead ==
    /\ [][\A a \in AnReqs :
            LET n == Cardinality({s \in scans : s.qr_code_id = an[a].qrId})
            IN  /\ (an[a].total_scans = None /\ an'[a].total_scans # None)
                   => an'[a].total_scans[1] = n
                /\ (an[a].device_breakdown = None /\ an'[a].device_breakdown # None)
                   => SumCounts(an'[a].device_breakdown[1]) = n
                /\ (an[a].scans_by_date = None /\ an'[a].scans_by_date # None)
                   => SumCounts(an'[a].scans_by_date[1]) = n]_vars
    /\ [][\A a \in AnReqs :
            (an[a].status # 200 /\ an'[a].status = 200)
            => /\ an'[a].total_scans = an[a].total_scans
               /\ an'[a].device_breakdown = an[a].device_breakdown
               /\ an'[a].scans_by_date = an[a].scans_by_date]_vars

\* C28 witness: a 200 response with total_scans 0 and a device_breakdown of
\* one scan, which was inserted between the two queries.
C28_Witness ==
    \E a \in AnReqs :
        /\ an[a].status = 200 /\ an[a].total_scans = Some(0)
        /\ SumCounts(an[a].device_breakdown[1]) = 1
        /\ Cardinality({s \in scans : s.qr_code_id = an[a].qrId}) = 1

\* C30 (as claimed): truncateIP applied to its own result returns that result,
\* for every input.
C30_Idempotent ==
    TruncateReturned => truncateIP(util.truncated) = util.truncated

\* a colon-delimited input without a dot that has fewer than four groups
FewerThanFourGroups(ip) ==
    /\ ip \notin {None, Some(<<>>)}
    /\ ~Includes(ip[1], Dot) /\ Includes(ip[1], Colon)
    /\ Len(Split(ip[1], Colon)) < 4

\* C30 (amended): truncateIP applied to its own result returns that result
\* for null, dotted and separator-free inputs and for colon-delimited ones
\* of four groups or more; for a colon-delimited input of two or three
\* groups the second application returns something else (the appended '::'
\* counts as groups).
C30_IdempotentFromFourGroups ==
    TruncateReturned
    => (truncateIP(util.truncated) = util.truncated <=> ~FewerThanFourGroups(util.ip))

\* C30 witness: a compressed IPv6 address of four groups, truncated, is
\* returned as it is by a second application.
C30_Witness ==
    /\ TruncateReturned /\ util.ip = Some(IPv6Short)
    /\ util.truncated = Some(<<"2001", ":", "db8", ":", ":", "1", ":", ":">>)
    /\ truncateIP(util.truncated) = util.truncated

(***************************************************************************)
(* The aggregates of a QRCode with many browsers and locations             *)
(***************************************************************************)
\* a query of request a returns in this step
Reads(a, field) == an[a][field] = None /\ an'[a][field] # None

\* the ScanEvents of the QRCode request a asks about
OwnScans(a) == {s \in scans : s.qr_code_id = an[a].qrId}

BrowserLabel(s) == COALESCE(s.browser, "unknown")
LocationLabel(s) == <<COALESCE(s.country, "unknown"), COALESCE(s.city, "unknown")>>
DeviceLabel(s) == COALESCE(s.device_type, "unknown")

NonIncreasing(rows) == \A i, j \in DOMAIN rows : i < j => rows[i].count >= rows[j].count

\* C25: browser_breakdown has at most 10 entries in non-increasing order of
\* count and no browser it omits has more of the QRCode's ScanEvents than a
\* listed entry counts; location_breakdown likewise with 20 (country, city)
\* pairs.
C25_TopByCount ==
    [][\A a \in AnReqs :
          /\ Reads(a, "browser_breakdown")
             => LET rows == an'[a].browser_breakdown[1]
                    listed == {rows[i].browser : i \in DOMAIN rows}
                IN  /\ Len(rows) <= 10
                    /\ NonIncreasing(rows)
                    /\ \A l \in {BrowserLabel(s) : s \in OwnScans(a)} \ listed :
                          \A i \in DOMAIN rows :
                             Cardinality({s \in OwnScans(a) : BrowserLabel(s) = l})
                                <= rows[i].count
          /\ Reads(a, "location_breakdown")
             => LET rows == an'[a].location_breakdown[1]
                    listed == {<<rows[i].country, rows[i].city>> : i \in DOMAIN rows}
                IN  /\ Len(rows) <= 20
                    /\ NonIncreasing(rows)
                    /\ \A l \in {LocationLabel(s) : s \in OwnScans(a)} \ listed :
                          \A i \in DOMAIN rows :
                             Cardinality({s \in OwnScans(a) : LocationLabel(s) = l})
                                <= rows[i].count]_vars

\* C26: scans_by_date has exactly one entry for each day on which the QRCode
\* has a ScanEvent, in strictly ascending order of date, each counting the
\* QRCode's ScanEvents of that day; and no aggregate counts a ScanEvent of
\* another QRCode.
C26_PerDayAndScoped ==
    [][\A a \in AnReqs :
          /\ Reads(a, "scans_by_date")
             => LET rows == an'[a].scans_by_date[1]
                IN  /\ {rows[i].date : i \in DOMAIN rows}
                          = {s.scanned_at : s \in OwnScans(a)}
                    /\ \A i, j \in DOMAIN rows : i < j => rows[i].date < rows[j].date
                    /\ \A i \in DOMAIN rows :
                          rows[i].count = Cardinality({s \in OwnScans(a) :
                                                          s.scanned_at = rows[i].date})
          /\ Reads(a, "total_scans")
             => an'[a].total_scans[1] = Cardinality(OwnScans(a))
          /\ Reads(a, "device_breakdown")
             => LET rows == an'[a].device_breakdown[1]
                IN  \A i \in DOMAIN rows :
                       rows[i].count <= Cardinality({s \in OwnScans(a) :
                                            DeviceLabel(s) = rows[i].device_type})
          /\ Reads(a, "browser_breakdown")
             => LET rows == an'[a].browser_breakdown[1]
                IN  \A i \in DOMAIN rows :
                       rows[i].count <= Cardinality({s \in OwnScans(a) :
                                            BrowserLabel(s) = rows[i].browser})
          /\ Reads(a, "location_breakdown")
             => LET rows == an'[a].location_breakdown[1]
                IN  \A i \in DOMAIN rows :
                       rows[i].count <= Cardinality({s \in OwnScans(a) :
                              LocationLabel(s) = <<rows[i].country, rows[i].city>>})]_vars

\* C26 witness: the analytics of QRCode 2, scanned on days 0 and MaxDay only,
\* answered while QRCode 1 has scans on the day between.
C26_Witness ==
    \E a \in AnReqs :
        /\ an[a].status = 200 /\ an[a].qrId = 2
        /\ an[a].total_scans = Some(2)
        /\ an[a].scans_by_date = Some(<<[date |-> 0, count |-> 1],
                                        [date |-> MaxDay, count |-> 1]>>)
        /\ Len(an[a].location_breakdown[1]) = 2
        /\ \E s \in scans : s.qr_code_id = 1 /\ s.scanned_at = 1

\* C29: no breakdown has two entries with the same label.
C29_OneEntryPerLabel ==
    \A a \in AnReqs :
        /\ an[a].device_breakdown # None
           => LET rows == an[a].device_breakdown[1]
              IN  \A i, j \in DOMAIN rows :
                     rows[i].device_type = rows[j].device_type => i = j
        /\ an[a].browser_breakdown # None
           => LET rows == an[a].browser_breakdown[1]
              IN  \A i, j \in DOMAIN rows : rows[i].browser = rows[j].browser => i = j
        /\ an[a].location_breakdown # None
           => LET rows == an[a].location_breakdown[1]
              IN  \A i, j \in DOMAIN rows :
                     (rows[i].country = rows[j].country /\ rows[i].city = rows[j].city)
                     => i = j
====
